---- MODULE Spec2Model ----
(***************************************************************************)
(* Model of services/image-service/app.py: a Flask application whose       *)
(* handlers read a process-wide configuration taken from the environment   *)
(* and update two Prometheus metrics (a labelled counter and a histogram). *)
(* Requests are served by concurrent worker threads; every thread runs one *)
(* handler at a time.  Program counters are named after the source line    *)
(* the thread is about to execute.                                         *)
(***************************************************************************)
EXTENDS Integers, FiniteSets, Sequences, TLC

(* ------------------------------ bounds --------------------------------- *)
NumThreads == 2
MaxRequests == 2

Threads == 1..NumThreads

(* ------------------------- values and inputs --------------------------- *)
\* os.getenv returns None for a variable that is not set
None == "<None>"

\* what the environment may hold for each variable: unset, empty, set
TokenValues == {None, "", "tok"}
AccessKeyValues == {None, "", "AKIA"}
BucketValues == {None, "", "images"}
JwtValues == {None, "jwt"}
SecretKeyValues == {None, "s3secret"}

\* Python truthiness of an optional string: None and "" are falsy
Truthy(v) == v # None /\ v # ""

\* request.headers.get('Authorization'): None when the header is absent
AuthHeaders == {None, "", "tok", "garbage"}

\* a key that a JSON object does not carry
Missing == "<missing>"

JsonObject(image, user) == [type |-> "object", image |-> image, user |-> user, n |-> 0]
JsonArray(len) == [type |-> "array", image |-> Missing, user |-> Missing, n |-> len]
JsonNull == [type |-> "null", image |-> Missing, user |-> Missing, n |-> 0]

\* {}, {"image": ..}, {"image": .., "user": ..}, [], [0]
JsonValues ==
    {JsonObject(Missing, Missing), JsonObject("cat.jpg", Missing),
     JsonObject("cat.jpg", "alice"), JsonArray(0), JsonArray(1)}

\* Python truthiness of a parsed JSON value
PyTruthy(v) ==
    CASE v.type = "object" -> v.image # Missing \/ v.user # Missing
      [] v.type = "array" -> v.n > 0
      [] OTHER -> FALSE

\* a request body: absent (no JSON content type), malformed JSON, or JSON
Bodies ==
    {[kind |-> "absent", json |-> JsonNull], [kind |-> "malformed", json |-> JsonNull]}
        \cup {[kind |-> "json", json |-> v] : v \in JsonValues}

\* the part of a request that the handler has not read yet
Unread == "<unread>"
UnreadBody == [kind |-> Unread, json |-> JsonNull]

(* ------------------------------ state ---------------------------------- *)
VARIABLES
    JWT_SECRET, IMAGE_SERVICE_TOKEN, S3_ACCESS_KEY, S3_SECRET_KEY, S3_BUCKET,
    request_count,      \* value of every (method, endpoint) child of the counter
    count_lock,         \* holder of every child's mutex, 0 when free
    processing_time,    \* number of samples observed by the histogram
    time_lock,          \* holder of the histogram's mutex, 0 when free
    pc, req, resp,      \* per thread: position, request being served, response
    auth_header,        \* per thread: the local of process(), Unread outside its use
    tmp,                \* per thread: value read under a mutex
    exc,                \* per thread: status of the exception in flight, 0 if none
    log                 \* history: what the handlers have done so far

config == <<JWT_SECRET, IMAGE_SERVICE_TOKEN, S3_ACCESS_KEY, S3_SECRET_KEY, S3_BUCKET>>
metrics_state == <<request_count, count_lock, processing_time, time_lock>>
thread_state == <<pc, req, resp, auth_header, tmp, exc>>
vars == <<config, metrics_state, thread_state, log>>

Methods == {"GET", "POST"}
Paths == {"/health", "/ready", "/", "/status", "/process", "/storage-info", "/metrics"}
Labels == Methods \X Paths

NoRequest == [op |-> "none", body |-> UnreadBody]
NoResponse == [status |-> 0]

Request(op) == [op |-> op, body |-> UnreadBody]

\* the state after the module has been imported, but for the environment
Started ==
    /\ request_count = [l \in Labels |-> 0]
    /\ count_lock = [l \in Labels |-> 0]
    /\ processing_time = 0
    /\ time_lock = 0
    /\ pc = [t \in Threads |-> "idle"]
    /\ req = [t \in Threads |-> NoRequest]
    /\ resp = [t \in Threads |-> NoResponse]
    /\ auth_header = [t \in Threads |-> Unread]
    /\ tmp = [t \in Threads |-> 0]
    /\ exc = [t \in Threads |-> 0]
    /\ log = [requests |-> 0, incs |-> [l \in Labels |-> 0], observed |-> 0, status |-> 0,
              process |-> 0, passed |-> 0, ok |-> 0, rejected |-> 0]

\* lines 12-16 under any environment
EnvInit ==
    /\ JWT_SECRET \in JwtValues
    /\ IMAGE_SERVICE_TOKEN \in TokenValues
    /\ S3_ACCESS_KEY \in AccessKeyValues
    /\ S3_SECRET_KEY \in SecretKeyValues
    /\ S3_BUCKET \in BucketValues
    /\ Started

\* lines 12-16 under a deployment that sets the storage secrets and may or may
\* not set the service token
Init ==
    /\ JWT_SECRET = "jwt"
    /\ IMAGE_SERVICE_TOKEN \in {None, "tok"}
    /\ S3_ACCESS_KEY = "AKIA"
    /\ S3_SECRET_KEY = "s3secret"
    /\ S3_BUCKET = "images"
    /\ Started

(* --------------------------- helper steps ------------------------------ *)
\* a thread accepts a new request when it is idle; the requests are counted
Accepts(t) == pc[t] = "idle" /\ log.requests < MaxRequests

\* a handler without shared state: the whole handler is one step
Answer(t, r, response) ==
    /\ Accepts(t)
    /\ pc' = [pc EXCEPT ![t] = "done"]
    /\ req' = [req EXCEPT ![t] = r]
    /\ resp' = [resp EXCEPT ![t] = response]
    /\ log' = [log EXCEPT !.requests = @ + 1]
    /\ UNCHANGED <<config, metrics_state, auth_header, tmp, exc>>

(* ------------------------------ /health -------------------------------- *)
health(t) ==
    Answer(t, Request("health"),
           [status |-> 200, body |-> [status |-> "healthy", service |-> "image-service"]])

(* ------------------------------- /ready -------------------------------- *)
\* all([IMAGE_SERVICE_TOKEN, S3_ACCESS_KEY]) with every element a string or None
is_ready_any == Truthy(IMAGE_SERVICE_TOKEN) \/ Truthy(S3_ACCESS_KEY)

is_ready == Truthy(IMAGE_SERVICE_TOKEN) /\ Truthy(S3_ACCESS_KEY)

ready(t) ==
    Answer(t, Request("ready"),
           IF is_ready
           THEN [status |-> 200, body |-> [ready |-> TRUE, message |-> "Service ready"]]
           ELSE [status |-> 503, body |-> [ready |-> FALSE, message |-> "Missing configuration"]])

(* --------------------------------- / ----------------------------------- *)
index(t) ==
    Answer(t, Request("index"),
           [status |-> 200,
            body |-> [service |-> "image-service", version |-> "1.0.0",
                      endpoints |-> <<"/health", "/ready", "/status", "/process",
                                      "/storage-info", "/metrics">>]])

(* ---------------------------- /storage-info ---------------------------- *)
storage_bucket_unset_only == IF S3_BUCKET # None THEN S3_BUCKET ELSE "default-bucket"

\* S3_BUCKET or 'default-bucket'
storage_bucket == IF Truthy(S3_BUCKET) THEN S3_BUCKET ELSE "default-bucket"

storage_info(t) ==
    Answer(t, Request("storage_info"),
           IF ~Truthy(S3_ACCESS_KEY)
           THEN [status |-> 500,
                 body |-> [error |-> "Storage not configured",
                           hint |-> "S3 credentials missing from Kubernetes Secrets"]]
           ELSE [status |-> 200,
                 body |-> [configured |-> TRUE, provider |-> "S3-compatible",
                           bucket |-> storage_bucket,
                           operations_available |-> <<"upload", "download", "list", "delete">>,
                           message |-> "Using S3 credentials from Kubernetes Secrets"]])

(* ------------------------------ /metrics ------------------------------- *)
metrics(t) ==
    Answer(t, Request("metrics"),
           [status |-> 200, content_type |-> "text/plain",
            body |-> [image_requests_total |-> request_count,
                      image_processing_duration_seconds_count |-> processing_time]])

(* --------------------------- error handlers ---------------------------- *)
not_found(t) ==
    Answer(t, Request("not_found"),
           [status |-> 404, body |-> [error |-> "Endpoint not found"]])

\* an HTTP exception keeps its own status; any other exception reaches the
\* handler registered for 500
internal_error(code) ==
    IF code = 500
    THEN [status |-> 500, body |-> [error |-> "Internal server error"]]
    ELSE [status |-> code, body |-> [error |-> "HTTPException"]]

(* ----------------------- Counter.inc, Histogram.observe ---------------- *)
\* prometheus_client guards a metric's value by a mutex of its own:
\* `with self._lock: self._value += amount`; the read and the write of the
\* value are two steps of the thread that holds it
LockFreeUnguarded(holder) == TRUE

LockFree(holder) == holder = 0

\* take the child's mutex and read its value
CounterLock(t, label) ==
    /\ LockFree(count_lock[label])
    /\ count_lock' = [count_lock EXCEPT ![label] = t]
    /\ tmp' = [tmp EXCEPT ![t] = request_count[label]]
    /\ UNCHANGED <<request_count, processing_time, time_lock>>

\* write the value back and release the mutex
CounterStore(t, label) ==
    /\ request_count' = [request_count EXCEPT ![label] = tmp[t] + 1]
    /\ count_lock' = [count_lock EXCEPT ![label] = 0]
    /\ UNCHANGED <<processing_time, time_lock>>

(* ------------------------------- /status ------------------------------- *)
StatusLabelCopied == <<"POST", "/process">>

StatusLabel == <<"GET", "/status">>

processed_images_counted == request_count[<<"POST", "/process">>]

processed_images == 42

using_secrets == Truthy(IMAGE_SERVICE_TOKEN) /\ Truthy(S3_ACCESS_KEY)

status(t) ==
    /\ Accepts(t)
    /\ pc' = [pc EXCEPT ![t] = "L71"]
    /\ req' = [req EXCEPT ![t] = Request("status")]
    /\ log' = [log EXCEPT !.requests = @ + 1, !.status = @ + 1]
    /\ UNCHANGED <<config, metrics_state, resp, auth_header, tmp, exc>>

\* line 71, first half of inc()
status_inc_lock(t) ==
    /\ pc[t] = "L71"
    /\ CounterLock(t, StatusLabel)
    /\ pc' = [pc EXCEPT ![t] = "L71_store"]
    /\ UNCHANGED <<config, req, resp, auth_header, exc, log>>

\* line 71, second half of inc(), then lines 72-77
status_inc_store(t) ==
    /\ pc[t] = "L71_store"
    /\ CounterStore(t, StatusLabel)
    /\ log' = [log EXCEPT !.incs[StatusLabel] = @ + 1]
    /\ resp' = [resp EXCEPT ![t] =
                   [status |-> 200,
                    body |-> [operational |-> TRUE, processed_images |-> processed_images,
                              using_secrets |-> using_secrets]]]
    /\ pc' = [pc EXCEPT ![t] = "done"]
    /\ UNCHANGED <<config, req, auth_header, tmp, exc>>

(* ------------------------------ /process ------------------------------- *)
ProcessLabel == <<"POST", "/process">>

\* the handler's first statement (line 82) is the counter increment
ProcessEntryUncounted == "L85"

ProcessEntry == "L82"

process(t) ==
    /\ Accepts(t)
    /\ req' = [req EXCEPT ![t] = Request("process")]
    /\ pc' = [pc EXCEPT ![t] = ProcessEntry]
    /\ log' = [log EXCEPT !.requests = @ + 1, !.process = @ + 1]
    /\ UNCHANGED <<config, metrics_state, resp, auth_header, tmp, exc>>

\* line 82, first half of inc()
process_inc_lock(t) ==
    /\ pc[t] = "L82"
    /\ CounterLock(t, ProcessLabel)
    /\ pc' = [pc EXCEPT ![t] = "L82_store"]
    /\ UNCHANGED <<config, req, resp, auth_header, exc, log>>

\* line 82, second half of inc()
process_inc_store(t) ==
    /\ pc[t] = "L82_store"
    /\ CounterStore(t, ProcessLabel)
    /\ log' = [log EXCEPT !.incs[ProcessLabel] = @ + 1]
    /\ pc' = [pc EXCEPT ![t] = "L85"]
    /\ UNCHANGED <<config, req, resp, auth_header, tmp, exc>>

\* if not auth_header and IMAGE_SERVICE_TOKEN
UnauthorizedValidating(auth) == Truthy(IMAGE_SERVICE_TOKEN) /\ auth # IMAGE_SERVICE_TOKEN

Unauthorized(auth) == ~Truthy(auth) /\ Truthy(IMAGE_SERVICE_TOKEN)

\* lines 85-87; the request's header is drawn where the handler reads it
process_auth(t) ==
    /\ pc[t] = "L85"
    /\ \E header \in AuthHeaders :
           /\ auth_header' = [auth_header EXCEPT ![t] = header]
           /\ IF Unauthorized(header)
              THEN /\ resp' = [resp EXCEPT ![t] =
                                  [status |-> 401, body |-> [error |-> "Unauthorized"]]]
                   /\ pc' = [pc EXCEPT ![t] = "done"]
                   /\ log' = [log EXCEPT !.rejected = @ + 1]
              ELSE /\ pc' = [pc EXCEPT ![t] = "L89"]
                   /\ log' = [log EXCEPT !.passed = @ + 1]
                   /\ UNCHANGED resp
    /\ UNCHANGED <<config, metrics_state, req, tmp, exc>>

\* request.get_json(): the parsed value, or the status of the HTTP exception it
\* raises.  Without a JSON content type it returns None or, from Flask 2.1 on,
\* raises 415 Unsupported Media Type; both builds are possible.
get_json(body) ==
    CASE body.kind = "json" -> {[raised |-> 0, value |-> body.json]}
      [] body.kind = "malformed" -> {[raised |-> 400, value |-> JsonNull]}
      [] OTHER -> {[raised |-> 0, value |-> JsonNull], [raised |-> 415, value |-> JsonNull]}

\* request.get_json() or {}
data_or_empty(value) == IF PyTruthy(value) THEN value ELSE JsonObject(Missing, Missing)

\* data.get(key, default) on a dict
dict_get(value, default) == IF value = Missing THEN default ELSE value

\* Timer.__enter__ reads the clock and takes no lock
TimerEnterHolding(t) == t

TimerEnter(t) == time_lock

\* lines 89-92: enter the timer, parse the body, read its two keys; the
\* request's body is drawn where the handler reads it, and auth_header is
\* not used any more
process_body(t) ==
    /\ pc[t] = "L89"
    /\ time_lock' = TimerEnter(t)
    /\ auth_header' = [auth_header EXCEPT ![t] = Unread]
    /\ \E body \in Bodies : \E r \in get_json(body) :
           /\ req' = [req EXCEPT ![t].body = body]
           /\ IF r.raised # 0
              THEN /\ exc' = [exc EXCEPT ![t] = r.raised]
                   /\ pc' = [pc EXCEPT ![t] = "L108"]
              ELSE IF data_or_empty(r.value).type # "object"
                   THEN \* AttributeError at line 91: the value has no method get
                        /\ exc' = [exc EXCEPT ![t] = 500]
                        /\ pc' = [pc EXCEPT ![t] = "L108"]
                   ELSE /\ pc' = [pc EXCEPT ![t] = "L95"]
                        /\ UNCHANGED exc
    /\ UNCHANGED <<config, request_count, count_lock, processing_time, resp, tmp, log>>

\* line 95: time.sleep(0.1) returns; lines 97-108 build the result
process_sleep(t) ==
    /\ pc[t] = "L95"
    /\ pc' = [pc EXCEPT ![t] = "L108"]
    /\ UNCHANGED <<config, metrics_state, req, resp, auth_header, tmp, exc, log>>

\* the with-block is left, normally or by an exception: Timer.__exit__ calls
\* Histogram.observe, which takes the histogram's mutex and reads the count
observe_lock(t) ==
    /\ pc[t] = "L108"
    /\ LockFree(time_lock)
    /\ time_lock' = t
    /\ tmp' = [tmp EXCEPT ![t] = processing_time]
    /\ pc' = [pc EXCEPT ![t] = "L108_store"]
    /\ UNCHANGED <<config, request_count, count_lock, processing_time, req, resp,
                   auth_header, exc, log>>

\* __exit__ runs whether or not an exception is in flight
TimerExitObservesOnSuccess(raised) == ~raised

TimerExitObserves(raised) == TRUE

ProcessResult(data) ==
    [processed |-> TRUE,
     image |-> dict_get(data.image, "unknown.jpg"),
     user |-> dict_get(data.user, "anonymous"),
     operations |-> <<"resize", "compress", "optimize">>,
     storage |-> [provider |-> "S3-compatible",
                  bucket |-> IF Truthy(S3_BUCKET) THEN S3_BUCKET ELSE "default-bucket",
                  configured |-> Truthy(S3_ACCESS_KEY)]]

\* observe() writes the count back and releases the mutex; then line 110
\* returns the result, or the exception leaves the handler and Flask answers
\* with an error response
observe_store(t) ==
    /\ pc[t] = "L108_store"
    /\ processing_time' =
           IF TimerExitObserves(exc[t] # 0) THEN tmp[t] + 1 ELSE processing_time
    /\ time_lock' = 0
    /\ IF exc[t] = 0
       THEN /\ resp' = [resp EXCEPT ![t] =
                           [status |-> 200,
                            body |-> ProcessResult(data_or_empty(req[t].body.json))]]
            /\ log' = [log EXCEPT !.ok = @ + 1, !.observed = @ + 1]
       ELSE /\ resp' = [resp EXCEPT ![t] = internal_error(exc[t])]
            /\ log' = [log EXCEPT !.observed = @ + 1]
    /\ pc' = [pc EXCEPT ![t] = "done"]
    /\ UNCHANGED <<config, request_count, count_lock, req, auth_header, tmp, exc>>

(* ----------------------------- scheduling ------------------------------ *)
\* the response has been sent; the thread is free for the next request
finish(t) ==
    /\ pc[t] = "done"
    /\ pc' = [pc EXCEPT ![t] = "idle"]
    /\ req' = [req EXCEPT ![t] = NoRequest]
    /\ resp' = [resp EXCEPT ![t] = NoResponse]
    /\ auth_header' = [auth_header EXCEPT ![t] = Unread]
    /\ tmp' = [tmp EXCEPT ![t] = 0]
    /\ exc' = [exc EXCEPT ![t] = 0]
    /\ UNCHANGED <<config, metrics_state, log>>

Step(t) ==
    \/ health(t)
    \/ ready(t)
    \/ index(t)
    \/ storage_info(t)
    \/ metrics(t)
    \/ not_found(t)
    \/ status(t)
    \/ status_inc_lock(t)
    \/ status_inc_store(t)
    \/ process(t)
    \/ process_inc_lock(t)
    \/ process_inc_store(t)
    \/ process_auth(t)
    \/ process_body(t)
    \/ process_sleep(t)
    \/ observe_lock(t)
    \/ observe_store(t)
    \/ finish(t)

\* requests are served concurrently by the worker threads
Next == \E t \in Threads : Step(t)

Spec == Init /\ [][Next]_vars

\* one worker serves the requests one after the other
NextEnv == Step(1)

SpecEnv == EnvInit /\ [][NextEnv]_vars

(* ------------------------------ properties ----------------------------- *)
\* an environment variable or header that is present: set and not empty
Present(v) == v \notin {None, ""}

\* thread t has answered a request to the handler op and not yet moved on
Done(t, op) == pc[t] = "done" /\ req[t].op = op

\* number of threads whose position is one of the given ones
At(positions) == Cardinality({t \in Threads : pc[t] \in positions})

\* C1: every answer of /ready is 200 with ready=true when the service token
\* and the S3 access key are both present, and 503 with ready=false otherwise,
\* whatever the bucket, the JWT secret and the S3 secret key are.
C1_ReadyIffTokenAndKey ==
    \A t \in Threads :
        Done(t, "ready") =>
            IF Present(IMAGE_SERVICE_TOKEN) /\ Present(S3_ACCESS_KEY)
            THEN resp[t].status = 200 /\ resp[t].body.ready = TRUE
            ELSE resp[t].status = 503 /\ resp[t].body.ready = FALSE

C1_Witness ==
    \E t \in Threads :
        /\ Done(t, "ready")
        /\ resp[t].status = 503
        /\ Present(IMAGE_SERVICE_TOKEN)
        /\ ~Present(S3_ACCESS_KEY)
        /\ Present(S3_BUCKET)

\* C2, as stated: /process answers 401 exactly when the request carries no
\* Authorization header and a service token is configured.
C2_Original ==
    \A t \in Threads :
        (req[t].op = "process" /\ auth_header[t] # Unread) =>
            ((pc[t] = "done" /\ resp[t].status = 401)
                <=> (auth_header[t] = None /\ Present(IMAGE_SERVICE_TOKEN)))

\* C2, amended: /process answers 401 exactly when the Authorization header is
\* absent or empty and a non-empty service token is configured; a non-empty
\* header passes whatever its value, and 401 is only ever the answer of the
\* authorization check.
C2_RejectsIffNoHeaderValue ==
    \A t \in Threads :
        /\ (req[t].op = "process" /\ auth_header[t] # Unread) =>
               ((pc[t] = "done" /\ resp[t].status = 401)
                   <=> (~Present(auth_header[t]) /\ Present(IMAGE_SERVICE_TOKEN)))
        /\ (Done(t, "process") /\ resp[t].status = 401) =>
               (auth_header[t] \in {None, ""} /\ Present(IMAGE_SERVICE_TOKEN))

C2_Witness ==
    \E t \in Threads :
        /\ pc[t] = "L89"
        /\ auth_header[t] = "garbage"
        /\ Present(IMAGE_SERVICE_TOKEN)

\* C3: no increment is lost: every counter equals the number of inc() calls
\* completed on it, under every interleaving; and no counter ever decreases.
C3_NoLostUpdate ==
    /\ [](\A l \in Labels : request_count[l] = log.incs[l])
    /\ [][\A l \in Labels : request_count'[l] >= request_count[l]]_vars

C3_Witness ==
    \E t, u \in Threads :
        /\ pc[t] = "L82_store"
        /\ count_lock[<<"POST", "/process">>] = t
        /\ pc[u] = "L82"

\* C4, as stated: once every request has been answered, the (POST, /process)
\* counter equals the number of /process requests answered with 200.
C4_Original ==
    (\A t \in Threads : pc[t] = "idle") =>
        request_count[<<"POST", "/process">>] = log.ok

\* C4, amended: the (POST, /process) counter equals the number of /process
\* requests that have executed line 82, whatever their answer; so once every
\* request has been answered it equals the number of /process requests
\* received, those rejected with 401 included.
C4_CountsEveryProcessRequest ==
    request_count[<<"POST", "/process">>] = log.process - At({"L82", "L82_store"})

C4_Witness ==
    \E t \in Threads :
        /\ Done(t, "process")
        /\ resp[t].status = 401
        /\ request_count[<<"POST", "/process">>] = 1
        /\ log.ok = 0

\* C5: a mutex is held only by a thread that is between the read and the
\* write of a metric value, never by a thread in the delay of line 95; so the
\* delay of one request keeps no other request from taking the mutex.
C5_NoLockHeldInDelay ==
    /\ \A l \in Labels :
           count_lock[l] # 0 => pc[count_lock[l]] \in {"L71_store", "L82_store"}
    /\ time_lock # 0 => pc[time_lock] = "L108_store"
    /\ \A t \in Threads :
           pc[t] = "L95" => (time_lock # t /\ \A l \in Labels : count_lock[l] # t)

C5_Witness ==
    \E t, u \in Threads : t # u /\ pc[t] = "L95" /\ pc[u] = "L95"

\* C6: every answer of /process is 401 or 200, and a request that passed the
\* authorization check is answered 200 with image and user taken from the body
\* or defaulting to "unknown.jpg" and "anonymous".
C6_ProcessOutcomes ==
    \A t \in Threads :
        Done(t, "process") =>
            /\ resp[t].status \in {200, 401}
            /\ resp[t].status = 200 =>
                   /\ resp[t].body.image \in {"unknown.jpg", req[t].body.json.image}
                   /\ resp[t].body.user \in {"anonymous", req[t].body.json.user}
                   /\ resp[t].body.image # Missing
                   /\ resp[t].body.user # Missing

\* C7: /storage-info answers 500 "Storage not configured" exactly when no S3
\* access key is present, and otherwise 200 with configured=true and the bucket
\* name, "default-bucket" when the bucket is unset or empty; whatever the
\* service token and the counters are.
C7_StorageInfo ==
    \A t \in Threads :
        Done(t, "storage_info") =>
            IF ~Present(S3_ACCESS_KEY)
            THEN resp[t].status = 500 /\ resp[t].body.error = "Storage not configured"
            ELSE /\ resp[t].status = 200
                 /\ resp[t].body.configured = TRUE
                 /\ resp[t].body.bucket =
                        IF Present(S3_BUCKET) THEN S3_BUCKET ELSE "default-bucket"

C7_Witness ==
    \E t \in Threads :
        /\ Done(t, "storage_info")
        /\ resp[t].status = 200
        /\ S3_BUCKET = ""
        /\ resp[t].body.bucket = "default-bucket"
        /\ request_count[<<"POST", "/process">>] = 1

\* C8: every answer of /status carries processed_images = 42, whatever the
\* counters are, and the (GET, /status) counter equals the number of /status
\* requests that have executed line 71: one increment for each.
C8_StatusPlaceholder ==
    /\ \A t \in Threads :
           Done(t, "status") =>
               resp[t].status = 200 /\ resp[t].body.processed_images = 42
    /\ request_count[<<"GET", "/status">>] = log.status - At({"L71", "L71_store"})

C8_Witness ==
    \E t \in Threads :
        /\ Done(t, "status")
        /\ request_count[<<"POST", "/process">>] = 1
        /\ request_count[<<"GET", "/status">>] = 1

\* C9: the histogram holds one sample for every /process request that passed
\* the authorization check and has left the with-block, by returning or by an
\* exception; a request rejected with 401 adds none.
C9_OneSamplePerPassedRequest ==
    processing_time = log.passed - At({"L89", "L95", "L108", "L108_store"})

C9_Witness ==
    \E t \in Threads :
        /\ Done(t, "process")
        /\ resp[t].status = 500
        /\ processing_time = 1

\* the handler that thread t is running in a step
Acting(t) == IF pc[t] = "idle" THEN req'[t].op ELSE req[t].op

\* C10: no step changes the configuration; a step of /status changes no metric
\* but the (GET, /status) counter, a step of /process none but the
\* (POST, /process) counter and the histogram, and a step of any other handler
\* changes no metric at all.
C10_Frame ==
    [][/\ config' = config
       /\ \A t \in Threads :
              pc'[t] # pc[t] =>
                  /\ Acting(t) # "process" => processing_time' = processing_time
                  /\ \A l \in Labels :
                         request_count'[l] # request_count[l] =>
                             \/ Acting(t) = "status" /\ l = <<"GET", "/status">>
                             \/ Acting(t) = "process" /\ l = <<"POST", "/process">>]_vars

C10_Witness ==
    \E t \in Threads :
        /\ Done(t, "health")
        /\ request_count[<<"GET", "/status">>] = 1

====
